---- MODULE Spec2Model ----
(***************************************************************************)
(* Tick-resolution engine of cq_galcon (src/cq_galcon/game/game.py) and    *)
(* its entity model (src/cq_galcon/game/entity.py).                        *)
(*                                                                         *)
(* Game.step runs its phases strictly one after the other; the model keeps *)
(* the position of the running step in pc and has one action per phase     *)
(* handler.  Python objects are modelled as a heap: fleets maps a fleet     *)
(* identity to its fields, planets maps a planet identity to its fields,   *)
(* and state is the list Game.state of entity references, whose order is   *)
(* the iteration order of every phase.                                     *)
(*                                                                         *)
(* Geometry: every entity lies on the line y = 0 and has an integer x, so   *)
(* that math.dist and Vector2.normalize are exact (|dx| and sign(dx)).     *)
(***************************************************************************)
EXTENDS Integers, Sequences, FiniteSets, TLC

VARIABLES
    state,            \* Game.state: sequence of entity references
    fleets,           \* heap of Fleet objects: id -> [team, position, strength, destination]
    planets,          \* heap of Planet objects: id -> [position, production_speed, remaining_until_new_ship, defending_fleet]
    pc,               \* position inside Game.step ("idle" between two steps)
    err,              \* exception raised by the running step, "none" if none
    created_fleets,   \* local of step: result of _handle_departures
    merged_fleets,    \* local of step: second result of _handle_reinforce
    destroyed_fleets, \* local of step: result of _handle_combat
    prev,             \* the fleets heap when the running (or last) step was entered
    prev_planets,     \* the planets heap when the running (or last) step was entered
    prev_state,       \* Game.state when the running (or last) step was entered
    before,           \* the heap when the phase that ran last was entered
    hist,             \* per planet: the run of undisturbed ticks it is in
    ticks,            \* number of steps entered so far
    commands,         \* argument of the running step (<<>> when none is running)
    captures,         \* the captures of the combat phase of the running (or last) step
    departed,         \* <<planet, garrison>>: a fleet departed from the planet, not captured since
    sent              \* planets whose garrison one command of the last commanded step sent away

vars == <<state, fleets, planets, pc, err, created_fleets, merged_fleets,
          destroyed_fleets, prev, prev_planets, prev_state, before, hist,
          ticks, commands, captures, departed, sent>>

----------------------------------------------------------------------------
(* Bounds of the model *)

MaxTicks == 3
MaxFleets == 5
MaxCommands == 2
MaxGrid == 2
MaxInitStrength == 2
MaxProductionSpeed == 2
MaxQuietTicks == 4

(* Program constants (cq_galcon/game/constants.py) *)

MAX_FLEET_SPEED == 5
MAX_ATTACK_SPEED == 3
NEUTREAL == "NEUTREAL"
Team == <<"NEUTREAL", "PLAYER_1", "PLAYER_2">>
GridStep == 8
InitialStrength == 10

None == 0

----------------------------------------------------------------------------
(* Small helpers *)

Min(a, b) == IF a < b THEN a ELSE b

Abs(a) == IF a < 0 THEN 0 - a ELSE a

Sign(a) == IF a < 0 THEN 0 - 1 ELSE IF a > 0 THEN 1 ELSE 0

SeqToSet(s) == {s[i] : i \in 1..Len(s)}

(* Entity references held in Game.state *)
FleetRef(f) == [kind |-> "Fleet", id |-> f]
PlanetRef(p) == [kind |-> "Planet", id |-> p]

(* entity.py Position *)
Position(x, y) == [x |-> x, y |-> y]

(* Position.distance_to on the line y = 0 *)
distance_to(a, b) == Abs(a.x - b.x)

(* Planet.size *)
size(pl, p) == pl[p].production_speed + 4

(* Planet.team *)
team(fl, pl, p) == fl[pl[p].defending_fleet].team

(* Fleet.can_dock *)
can_dock(fl, pl, f, p) ==
    distance_to(fl[f].position, pl[p].position) < size(pl, p) + MAX_FLEET_SPEED

----------------------------------------------------------------------------
(* Queries of Game over the entity list *)

(* Game.all_fleets: the fleets of Game.state, in list order *)
RECURSIVE all_fleets_from(_, _)
all_fleets_from(st, i) ==
    IF i > Len(st) THEN <<>>
    ELSE IF st[i].kind = "Fleet"
         THEN <<st[i].id>> \o all_fleets_from(st, i + 1)
         ELSE all_fleets_from(st, i + 1)

all_fleets(st) == all_fleets_from(st, 1)

(* Game.all_player_fleets: the non-neutral fleets of Game.state, in list order *)
all_player_fleets(st, fl) ==
    SelectSeq(all_fleets(st), LAMBDA f : fl[f].team # NEUTREAL)

(* the planets of Game.state, in list order *)
RECURSIVE all_planets_from(_, _)
all_planets_from(st, i) ==
    IF i > Len(st) THEN <<>>
    ELSE IF st[i].kind = "Planet"
         THEN <<st[i].id>> \o all_planets_from(st, i + 1)
         ELSE all_planets_from(st, i + 1)

(* all_player_planets without its team test: every planet of the list *)
all_planets_unfiltered(st, fl, pl) == all_planets_from(st, 1)

(* Game.all_player_planets: the planets whose garrison is not neutral *)
all_player_planets(st, fl, pl) ==
    SelectSeq(all_planets_from(st, 1), LAMBDA p : team(fl, pl, p) # NEUTREAL)

(* Game.find_planet *)
find_planet(st, fl, pl, defender) ==
    LET ps == all_player_planets(st, fl, pl)
        hits == {i \in 1..Len(ps) : pl[ps[i]].defending_fleet = defender}
    IN IF hits = {} THEN None
       ELSE ps[CHOOSE i \in hits : \A j \in hits : i <= j]

----------------------------------------------------------------------------
(* Phase 1: Game._handle_commands *)

RECURSIVE handle_commands_loop(_, _, _)
handle_commands_loop(cmds, i, fl) ==
    IF i > Len(cmds) THEN fl
    ELSE handle_commands_loop(cmds, i + 1,
             [fl EXCEPT ![cmds[i].fleet].destination = cmds[i].destination])

_handle_commands(cmds, fl) == handle_commands_loop(cmds, 1, fl)

(* Phase 2: Game._handle_already_defending_fleets.  fleet.destination is      *)
(* dereferenced without a test: a None destination raises AttributeError and *)
(* leaves the fleets before it in the list already corrected.                *)

RECURSIVE already_defending_loop(_, _, _, _)
already_defending_loop(L, i, fl, pl) ==
    IF i > Len(L) THEN [fleets |-> fl, err |-> "none"]
    ELSE IF fl[L[i]].destination = None
         THEN [fleets |-> fl, err |-> "AttributeError"]
    ELSE IF pl[fl[L[i]].destination].defending_fleet = L[i]
         THEN already_defending_loop(L, i + 1,
                  [fl EXCEPT ![L[i]].destination = None], pl)
    ELSE already_defending_loop(L, i + 1, fl, pl)

_handle_already_defending_fleets(st, fl, pl) ==
    already_defending_loop(all_player_fleets(st, fl), 1, fl, pl)

(* Phase 3: Game._handle_departures and Game._handle_departure *)

(* identity of a newly constructed Fleet object: one no live object has *)
NewFleetId(fl) == CHOOSE n \in 1..(Cardinality(DOMAIN fl) + 1) :
                      /\ n \notin DOMAIN fl
                      /\ \A m \in 1..(n - 1) : m \in DOMAIN fl

Ceil2(n) == (n + 1) \div 2

(* _handle_departure that always takes the split branch of lines 137-138 *)
_handle_departure_always_split(fl, pl, origin, destination, split) ==
    LET g == pl[origin].defending_fleet
        strenght_of_new_fleet == Ceil2(fl[g].strength)
        id == NewFleetId(fl)
        new_fleet == [team |-> team(fl, pl, origin),
                      position |-> pl[origin].position,
                      strength |-> strenght_of_new_fleet,
                      destination |-> destination]
        fl1 == [n \in DOMAIN fl \cup {id} |-> IF n = id THEN new_fleet ELSE fl[n]]
    IN [new_fleet |-> id,
        fleets |-> [fl1 EXCEPT ![g].strength = @ - new_fleet.strength]]

(* _handle_departure(origin, destination, split): the new fleet and the heap *)
_handle_departure(fl, pl, origin, destination, split) ==
    LET g == pl[origin].defending_fleet
        strenght_of_new_fleet ==
            IF split THEN Ceil2(fl[g].strength) ELSE fl[g].strength
        id == NewFleetId(fl)
        new_fleet == [team |-> team(fl, pl, origin),
                      position |-> pl[origin].position,
                      strength |-> strenght_of_new_fleet,
                      destination |-> destination]
        fl1 == [n \in DOMAIN fl \cup {id} |-> IF n = id THEN new_fleet ELSE fl[n]]
    IN [new_fleet |-> id,
        fleets |-> [fl1 EXCEPT ![g].strength = @ - new_fleet.strength]]

RECURSIVE departures_loop(_, _, _, _, _)
departures_loop(L, i, fl, pl, created) ==
    IF i > Len(L) THEN [fleets |-> fl, created_fleets |-> created]
    ELSE LET planet == L[i]
             dest == fl[pl[planet].defending_fleet].destination
         IN IF dest = None THEN departures_loop(L, i + 1, fl, pl, created)
            ELSE IF dest = planet THEN departures_loop(L, i + 1, fl, pl, created)
            ELSE LET r == _handle_departure(fl, pl, planet, dest, FALSE)
                 IN departures_loop(L, i + 1, r.fleets, pl,
                                    Append(created, r.new_fleet))

_handle_departures(st, fl, pl) ==
    departures_loop(all_player_planets(st, fl, pl), 1, fl, pl, <<>>)

(* the planets the loop spawns a fleet from (lines 117-124), in loop order *)
departure_origins(st, fl, pl) ==
    SelectSeq(all_player_planets(st, fl, pl),
              LAMBDA p : /\ fl[pl[p].defending_fleet].destination # None
                         /\ fl[pl[p].defending_fleet].destination # p)

(* Phase 4: Game._handle_movement and Game._move_fleet *)

(* _move_fleet: raises ValueError for a fleet without destination; else the  *)
(* new position is the displacement vector itself, toward.normalize() *      *)
(* max_speed: the fleet's old position is not added to it.                   *)
_move_fleet(fl, pl, f) ==
    IF fl[f].destination = None THEN [fleets |-> fl, err |-> "ValueError"]
    ELSE
    LET fleet_pos == fl[f].position
        dest_pos == pl[fl[f].destination].position
        toward == Position(dest_pos.x - fleet_pos.x, dest_pos.y - fleet_pos.y)
        length == Abs(toward.x)
        max_speed == Min(length - size(pl, fl[f].destination), MAX_FLEET_SPEED)
        newpos == Position(Sign(toward.x) * max_speed, 0)
    IN [fleets |-> [fl EXCEPT ![f].position = newpos], err |-> "none"]

RECURSIVE movement_loop(_, _, _, _)
movement_loop(L, i, fl, pl) ==
    IF i > Len(L) THEN [fleets |-> fl, err |-> "none"]
    ELSE IF fl[L[i]].destination = None THEN movement_loop(L, i + 1, fl, pl)
    ELSE IF can_dock(fl, pl, L[i], fl[L[i]].destination)
         THEN movement_loop(L, i + 1, fl, pl)
    ELSE LET r == _move_fleet(fl, pl, L[i])
         IN IF r.err # "none" THEN r
            ELSE movement_loop(L, i + 1, r.fleets, pl)

_handle_movement(st, fl, pl) ==
    movement_loop(all_player_fleets(st, fl), 1, fl, pl)

(* Phase 5: Game._handle_reinforce *)

(* reinforce_transfer without the cap of MAX_ATTACK_SPEED on the transfer *)
reinforce_transfer_uncapped(fl, pl, f) ==
    LET reinforcement_value == fl[f].strength
        g == pl[fl[f].destination].defending_fleet
        fl1 == [fl EXCEPT ![g].strength = @ + reinforcement_value]
    IN [fl1 EXCEPT ![f].strength = @ - reinforcement_value]

(* the transfer of lines 103-106 for fleet f, docked at a planet of its team *)
reinforce_transfer(fl, pl, f) ==
    LET reinforcement_value == Min(fl[f].strength, MAX_ATTACK_SPEED)
        g == pl[fl[f].destination].defending_fleet
        fl1 == [fl EXCEPT ![g].strength = @ + reinforcement_value]
    IN [fl1 EXCEPT ![f].strength = @ - reinforcement_value]

RECURSIVE reinforce_loop(_, _, _, _, _)
reinforce_loop(L, i, fl, pl, merged) ==
    IF i > Len(L) THEN [fleets |-> fl, merged_fleets |-> merged]
    ELSE IF fl[L[i]].destination = None
         THEN reinforce_loop(L, i + 1, fl, pl, merged)
    ELSE IF fl[L[i]].team # team(fl, pl, fl[L[i]].destination)
         THEN reinforce_loop(L, i + 1, fl, pl, merged)
    ELSE IF ~can_dock(fl, pl, L[i], fl[L[i]].destination)
         THEN reinforce_loop(L, i + 1, fl, pl, merged)
    ELSE LET fl2 == reinforce_transfer(fl, pl, L[i])
         IN reinforce_loop(L, i + 1, fl2, pl,
                IF fl2[L[i]].strength = 0 THEN Append(merged, L[i]) ELSE merged)

_handle_reinforce(st, fl, pl) ==
    reinforce_loop(all_player_fleets(st, fl), 1, fl, pl, <<>>)

(* Phase 6: Game._handle_combat.  The loop has no team test: every docked    *)
(* fleet with a destination fights that planet's garrison.                   *)

(* whether the combat loop fights fleet f against its destination's garrison *)
combat_applies(fl, pl, f) ==
    /\ fl[f].destination # None
    /\ can_dock(fl, pl, f, fl[f].destination)

(* combat_one without the draw rule of lines 167-168 *)
combat_one_no_draw_rule(fl, pl, f, destroyed) ==
    LET d == fl[f].destination
        g == pl[d].defending_fleet
        defending_fleet_dmg == Min(fl[f].strength, MAX_ATTACK_SPEED)
        attacking_fleet_dmg == Min(fl[g].strength, MAX_ATTACK_SPEED)
        fl1 == [fl EXCEPT ![g].strength = @ - defending_fleet_dmg]
        fl2 == [fl1 EXCEPT ![f].strength = @ - attacking_fleet_dmg]
        captured == fl2[g].strength < 0
        pl1 == IF captured THEN [pl EXCEPT ![d].defending_fleet = f] ELSE pl
        des1 == IF captured THEN Append(destroyed, g) ELSE destroyed
        des2 == IF fl2[f].strength <= 0 THEN Append(des1, f) ELSE des1
    IN [fleets |-> fl2, planets |-> pl1, destroyed_fleets |-> des2]

(* lines 158-175 for one fleet: heap, planets and destroyed list afterwards *)
combat_one(fl, pl, f, destroyed) ==
    LET d == fl[f].destination
        g == pl[d].defending_fleet
        defending_fleet_dmg == Min(fl[f].strength, MAX_ATTACK_SPEED)
        attacking_fleet_dmg == Min(fl[g].strength, MAX_ATTACK_SPEED)
        fl1 == [fl EXCEPT ![g].strength = @ - defending_fleet_dmg]
        fl2 == [fl1 EXCEPT ![f].strength = @ - attacking_fleet_dmg]
        fl3 == IF fl2[g].strength = 0 THEN [fl2 EXCEPT ![g].strength = 1] ELSE fl2
        captured == fl3[g].strength < 0
        pl1 == IF captured THEN [pl EXCEPT ![d].defending_fleet = f] ELSE pl
        des1 == IF captured THEN Append(destroyed, g) ELSE destroyed
        des2 == IF fl3[f].strength <= 0 THEN Append(des1, f) ELSE des1
    IN [fleets |-> fl3, planets |-> pl1, destroyed_fleets |-> des2]

RECURSIVE combat_loop(_, _, _, _, _)
combat_loop(L, i, fl, pl, destroyed) ==
    IF i > Len(L)
    THEN [fleets |-> fl, planets |-> pl, destroyed_fleets |-> destroyed]
    ELSE IF ~combat_applies(fl, pl, L[i])
         THEN combat_loop(L, i + 1, fl, pl, destroyed)
    ELSE LET r == combat_one(fl, pl, L[i], destroyed)
         IN combat_loop(L, i + 1, r.fleets, r.planets, r.destroyed_fleets)

_handle_combat(st, fl, pl) ==
    combat_loop(all_player_fleets(st, fl), 1, fl, pl, <<>>)

(* the applications of lines 158-175 the loop makes, in order: the planet,  *)
(* the attacking fleet, the garrison it fights, both strengths before the    *)
(* application and the garrison's strength after it                          *)
RECURSIVE applications_loop(_, _, _, _, _)
applications_loop(L, i, fl, pl, apps) ==
    IF i > Len(L) THEN apps
    ELSE IF ~combat_applies(fl, pl, L[i])
         THEN applications_loop(L, i + 1, fl, pl, apps)
    ELSE LET d == fl[L[i]].destination
             g == pl[d].defending_fleet
             r == combat_one(fl, pl, L[i], <<>>)
         IN applications_loop(L, i + 1, r.fleets, r.planets,
                Append(apps, [planet |-> d, attacker |-> L[i], defender |-> g,
                              attacker_strength |-> fl[L[i]].strength,
                              defender_strength |-> fl[g].strength,
                              defender_after |-> r.fleets[g].strength]))

combat_applications(st, fl, pl) ==
    applications_loop(all_player_fleets(st, fl), 1, fl, pl, <<>>)

(* the captures among them (lines 170-172) *)
combat_captures(st, fl, pl) ==
    SelectSeq(combat_applications(st, fl, pl),
              LAMBDA a : a.defender_after < 0)

(* Phase 7: Game._handle_production *)

(* production_one producing one tick late: the countdown test is < 0 *)
production_one_late(fl, pl, p) ==
    LET remaining == pl[p].remaining_until_new_ship - 1
    IN IF remaining < 0
       THEN [fleets |-> [fl EXCEPT ![pl[p].defending_fleet].strength = @ + 1],
             planets |-> [pl EXCEPT ![p].remaining_until_new_ship =
                                        pl[p].production_speed]]
       ELSE [fleets |-> fl,
             planets |-> [pl EXCEPT ![p].remaining_until_new_ship = remaining]]

(* lines 181-184 for one planet *)
production_one(fl, pl, p) ==
    LET remaining == pl[p].remaining_until_new_ship - 1
    IN IF remaining <= 0
       THEN [fleets |-> [fl EXCEPT ![pl[p].defending_fleet].strength = @ + 1],
             planets |-> [pl EXCEPT ![p].remaining_until_new_ship =
                                        pl[p].production_speed]]
       ELSE [fleets |-> fl,
             planets |-> [pl EXCEPT ![p].remaining_until_new_ship = remaining]]

RECURSIVE production_loop(_, _, _, _)
production_loop(L, i, fl, pl) ==
    IF i > Len(L) THEN [fleets |-> fl, planets |-> pl]
    ELSE LET r == production_one(fl, pl, L[i])
         IN production_loop(L, i + 1, r.fleets, r.planets)

_handle_production(st, fl, pl) ==
    production_loop(all_player_planets(st, fl, pl), 1, fl, pl)

(* End of step (lines 54-62): extend with the created fleets, then remove    *)
(* the merged and the destroyed ones.  list.remove raises ValueError when    *)
(* the fleet is not (or no longer) in the list.                              *)

(* list.remove: the list without the first occurrence of e *)
list_remove(st, e) ==
    LET i == CHOOSE k \in 1..Len(st) : st[k] = e /\ \A j \in 1..(k - 1) : st[j] # e
    IN SubSeq(st, 1, i - 1) \o SubSeq(st, i + 1, Len(st))

RECURSIVE remove_loop(_, _, _)
remove_loop(to_remove, i, st) ==
    IF i > Len(to_remove) THEN [state |-> st, err |-> "none"]
    ELSE IF FleetRef(to_remove[i]) \notin SeqToSet(st)
         THEN [state |-> st, err |-> "ValueError"]
    ELSE remove_loop(to_remove, i + 1, list_remove(st, FleetRef(to_remove[i])))

RECURSIVE refs_of(_, _)
refs_of(ids, i) ==
    IF i > Len(ids) THEN <<>> ELSE <<FleetRef(ids[i])>> \o refs_of(ids, i + 1)

(* update_state without line 55: the created fleets are not appended *)
update_state_no_extend(st, created, merged, destroyed) ==
    remove_loop(merged \o destroyed, 1, st)

update_state(st, created, merged, destroyed) ==
    remove_loop(merged \o destroyed, 1, st \o refs_of(created, 1))

(* Fleet objects nothing refers to any more are dropped from the heap *)
Reachable(st, fl, pl) ==
    {f \in DOMAIN fl : \/ FleetRef(f) \in SeqToSet(st)
                       \/ \E p \in DOMAIN pl : pl[p].defending_fleet = f}

Collect(st, fl, pl) == [f \in Reachable(st, fl, pl) |-> fl[f]]

----------------------------------------------------------------------------
(* History kept for the properties; the program has no such state *)

Heap(fl, pl) == [fleets |-> fl, planets |-> pl]

NoRun == [run |-> 0, base |-> 0]

(* At the end of a tick: planet p was active during the tick and nothing but *)
(* production touched it: it kept its garrison, the garrison neither left    *)
(* nor went anywhere (it has no destination after the already-arrived        *)
(* correction) nor holds another planet, and no active fleet was docked at p.*)
Undisturbed(p) ==
    LET g == planets[p].defending_fleet
    IN /\ prev_planets[p].defending_fleet = g
       /\ fleets[g].team # NEUTREAL
       /\ fleets[g].destination = None
       /\ \A q \in DOMAIN planets : q # p => planets[q].defending_fleet # g
       /\ \A h \in SeqToSet(all_player_fleets(state, fleets)) :
             ~(/\ fleets[h].destination = p
               /\ can_dock(fleets, planets, h, p))

(* hist[p].run counts the undisturbed ticks in a row of planet p, from a     *)
(* tick it entered with its countdown at production_speed; hist[p].base is   *)
(* its garrison's strength when that run began.                              *)
NextHist ==
    [p \in DOMAIN hist |->
        IF ~Undisturbed(p) THEN NoRun
        ELSE IF hist[p].run > 0
             THEN [run |-> hist[p].run + 1, base |-> hist[p].base]
        ELSE IF prev_planets[p].remaining_until_new_ship =
                    prev_planets[p].production_speed
             THEN [run |-> 1,
                   base |-> prev[planets[p].defending_fleet].strength]
        ELSE NoRun]

----------------------------------------------------------------------------
(* Initial states: the collection Game.init_random_game_state builds, one    *)
(* fleet and one planet per team at the same position, the fleet without a   *)
(* destination, appended fleet first.  The planets lie GridStep * spread     *)
(* apart; strengths and the production speed are drawn from small ranges.    *)

(* the strength init_random_game_state gives every fleet, and smaller ones *)
InitStrengths == {InitialStrength} \cup 1..MaxInitStrength

InitState == [i \in 1..(2 * Len(Team)) |->
                 IF i % 2 = 1 THEN FleetRef((i + 1) \div 2)
                              ELSE PlanetRef(i \div 2)]

InitFleets(spread, strengths) ==
    [i \in 1..Len(Team) |->
        [team |-> Team[i],
         position |-> Position((i - 1) * spread * GridStep, 0),
         strength |-> strengths[i],
         destination |-> None]]

InitPlanets(spread, production_speed) ==
    [i \in 1..Len(Team) |->
        [position |-> Position((i - 1) * spread * GridStep, 0),
         production_speed |-> production_speed,
         remaining_until_new_ship |-> production_speed,
         defending_fleet |-> i]]

Init ==
    /\ \E spread \in 0..MaxGrid,
          strengths \in [1..Len(Team) -> InitStrengths],
          production_speed \in 1..MaxProductionSpeed :
           /\ fleets = InitFleets(spread, strengths)
           /\ planets = InitPlanets(spread, production_speed)
    /\ state = InitState
    /\ pc = "idle"
    /\ err = "none"
    /\ created_fleets = <<>>
    /\ merged_fleets = <<>>
    /\ destroyed_fleets = <<>>
    /\ prev = fleets
    /\ prev_planets = planets
    /\ prev_state = state
    /\ before = Heap(fleets, planets)
    /\ hist = [p \in 1..Len(Team) |-> NoRun]
    /\ ticks = 0
    /\ commands = <<>>
    /\ captures = <<>>
    /\ departed = {}
    /\ sent = {}

----------------------------------------------------------------------------
(* The command lists a caller can pass: MoveCommands on fleets of the        *)
(* collection towards planets of the collection.  step never reads           *)
(* MoveCommand.split, so the commands carry its default.                     *)

MoveCommand(fleet, destination) ==
    [fleet |-> fleet, destination |-> destination, split |-> FALSE]

CommandSet == {MoveCommand(f, d) : f \in SeqToSet(all_fleets(state)),
                                   d \in DOMAIN planets}

CommandLists == UNION {[1..n -> CommandSet] : n \in 0..MaxCommands}

(* exactly one command of cmds is for the garrison of planet p, and it sends *)
(* it to another planet                                                      *)
SentByOneCommand(cmds, p) ==
    LET on_garrison == {i \in 1..Len(cmds) :
                           cmds[i].fleet = planets[p].defending_fleet}
    IN /\ Cardinality(on_garrison) = 1
       /\ \A i \in on_garrison : cmds[i].destination # p

(* number of Fleet objects the step entered with these commands constructs *)
NewFleetsOf(cmds) ==
    LET fl1 == _handle_commands(cmds, fleets)
        r == _handle_already_defending_fleets(state, fl1, planets)
    IN IF r.err # "none" THEN 0
       ELSE Len(_handle_departures(state, r.fleets, planets).created_fleets)

----------------------------------------------------------------------------
(* Game.step, one action per phase *)

(* step is called with a command list; phase 1 runs *)
HandleCommands ==
    /\ pc = "idle"
    /\ ticks < MaxTicks
    /\ \E cmds \in CommandLists :
          /\ Cardinality(DOMAIN fleets) + NewFleetsOf(cmds) <= MaxFleets
          /\ fleets' = _handle_commands(cmds, fleets)
          /\ commands' = cmds
    /\ captures' = <<>>
    /\ prev' = fleets
    /\ prev_planets' = planets
    /\ prev_state' = state
    /\ before' = Heap(fleets, planets)
    /\ ticks' = ticks + 1
    /\ pc' = "already_defending"
    /\ created_fleets' = <<>>
    /\ merged_fleets' = <<>>
    /\ destroyed_fleets' = <<>>
    /\ UNCHANGED <<state, planets, err, hist, departed, sent>>

HandleAlreadyDefendingFleets ==
    /\ pc = "already_defending"
    /\ LET r == _handle_already_defending_fleets(state, fleets, planets)
       IN /\ fleets' = r.fleets
          /\ err' = r.err
          /\ pc' = IF r.err = "none" THEN "departures" ELSE "failed"
    /\ before' = Heap(fleets, planets)
    /\ UNCHANGED <<state, planets, created_fleets, merged_fleets,
                   destroyed_fleets, prev, prev_planets, prev_state, hist,
                   ticks, commands, captures, departed, sent>>

HandleDepartures ==
    /\ pc = "departures"
    /\ LET r == _handle_departures(state, fleets, planets)
       IN /\ fleets' = r.fleets
          /\ created_fleets' = r.created_fleets
    /\ pc' = "movement"
    /\ before' = Heap(fleets, planets)
    /\ departed' = departed \cup
                       {<<p, planets[p].defending_fleet>> :
                           p \in SeqToSet(departure_origins(state, fleets,
                                                            planets))}
    /\ sent' = IF commands = <<>> THEN sent
               ELSE {p \in SeqToSet(departure_origins(state, fleets, planets)) :
                        SentByOneCommand(commands, p)}
    /\ UNCHANGED <<state, planets, err, merged_fleets, destroyed_fleets,
                   prev, prev_planets, prev_state, hist, ticks, commands,
                   captures>>

HandleMovement ==
    /\ pc = "movement"
    /\ LET r == _handle_movement(state, fleets, planets)
       IN /\ fleets' = r.fleets
          /\ err' = r.err
          /\ pc' = IF r.err = "none" THEN "reinforce" ELSE "failed"
    /\ before' = Heap(fleets, planets)
    /\ UNCHANGED <<state, planets, created_fleets, merged_fleets,
                   destroyed_fleets, prev, prev_planets, prev_state, hist,
                   ticks, commands, captures, departed, sent>>

HandleReinforce ==
    /\ pc = "reinforce"
    /\ LET r == _handle_reinforce(state, fleets, planets)
       IN /\ fleets' = r.fleets
          /\ merged_fleets' = r.merged_fleets
    /\ pc' = "combat"
    /\ before' = Heap(fleets, planets)
    /\ UNCHANGED <<state, planets, err, created_fleets, destroyed_fleets,
                   prev, prev_planets, prev_state, hist, ticks, commands,
                   captures, departed, sent>>

HandleCombat ==
    /\ pc = "combat"
    /\ LET r == _handle_combat(state, fleets, planets)
       IN /\ fleets' = r.fleets
          /\ planets' = r.planets
          /\ destroyed_fleets' = r.destroyed_fleets
    /\ pc' = "production"
    /\ before' = Heap(fleets, planets)
    /\ LET caps == combat_captures(state, fleets, planets)
           taken == {caps[i].planet : i \in 1..Len(caps)}
       IN /\ captures' = caps
          /\ departed' = {d \in departed : d[1] \notin taken}
          /\ sent' = sent \ taken
    /\ UNCHANGED <<state, err, created_fleets, merged_fleets,
                   prev, prev_planets, prev_state, hist, ticks, commands>>

HandleProduction ==
    /\ pc = "production"
    /\ LET r == _handle_production(state, fleets, planets)
       IN /\ fleets' = r.fleets
          /\ planets' = r.planets
    /\ pc' = "update"
    /\ before' = Heap(fleets, planets)
    /\ UNCHANGED <<state, err, created_fleets, merged_fleets,
                   destroyed_fleets, prev, prev_planets, prev_state, hist,
                   ticks, commands, captures, departed, sent>>

(* lines 54-62; step returns (to "idle") or raises *)
UpdateState ==
    /\ pc = "update"
    /\ LET r == update_state(state, created_fleets, merged_fleets,
                             destroyed_fleets)
       IN /\ state' = r.state
          /\ err' = r.err
          /\ pc' = IF r.err = "none" THEN "idle" ELSE "failed"
          /\ fleets' = IF r.err = "none"
                       THEN Collect(r.state, fleets, planets) ELSE fleets
          /\ hist' = IF r.err = "none" THEN NextHist ELSE hist
    /\ before' = Heap(fleets, planets)
    /\ commands' = <<>>
    /\ UNCHANGED <<planets, created_fleets, merged_fleets, destroyed_fleets,
                   prev, prev_planets, prev_state, ticks, captures, departed,
                   sent>>

Next ==
    \/ HandleCommands
    \/ HandleAlreadyDefendingFleets
    \/ HandleDepartures
    \/ HandleMovement
    \/ HandleReinforce
    \/ HandleCombat
    \/ HandleProduction
    \/ UpdateState

(* One commanded step followed by steps without commands: the first step   *)
(* takes any command list, every later one is step([]).                      *)
FirstStep == ticks = 0 /\ HandleCommands

HandleNoCommands ==
    /\ pc = "idle"
    /\ ticks \in 1..(MaxQuietTicks - 1)
    /\ fleets' = _handle_commands(<<>>, fleets)
    /\ commands' = <<>>
    /\ captures' = <<>>
    /\ prev' = fleets
    /\ prev_planets' = planets
    /\ prev_state' = state
    /\ before' = Heap(fleets, planets)
    /\ ticks' = ticks + 1
    /\ pc' = "already_defending"
    /\ created_fleets' = <<>>
    /\ merged_fleets' = <<>>
    /\ destroyed_fleets' = <<>>
    /\ UNCHANGED <<state, planets, err, hist, departed, sent>>

QuietNext ==
    \/ FirstStep
    \/ HandleNoCommands
    \/ HandleAlreadyDefendingFleets
    \/ HandleDepartures
    \/ HandleMovement
    \/ HandleReinforce
    \/ HandleCombat
    \/ HandleProduction
    \/ UpdateState


----------------------------------------------------------------------------
(* Vocabulary of the properties *)

(* the fleets of the collection, as a set *)
FleetsInState == SeqToSet(all_fleets(state))

(* the non-neutral fleets of the collection: the fleets every phase loops    *)
(* over (no phase changes the list or a team before the end of the step)     *)
ActiveFleets == SeqToSet(all_player_fleets(state, fleets))

(* a step has returned normally and none is running *)
StepCompleted == pc = "idle" /\ ticks > 0

(* the phase named has just run: the heap it started from is in before *)
JustRan(phase) ==
    pc = CASE phase = "commands" -> "already_defending"
           [] phase = "already_defending" -> "departures"
           [] phase = "departures" -> "movement"
           [] phase = "movement" -> "reinforce"
           [] phase = "reinforce" -> "combat"
           [] phase = "combat" -> "production"
           [] phase = "production" -> "update"

(* in heap h, fleet f is docked at the planet it is heading to *)
Docked(h, f) ==
    /\ h.fleets[f].destination # None
    /\ can_dock(h.fleets, h.planets, f, h.fleets[f].destination)

(* in heap h, the garrison of the planet fleet f is heading to *)
GarrisonOf(h, f) == h.planets[h.fleets[f].destination].defending_fleet

(* in heap h, fleet f is docked at a planet held by its own team *)
FriendlyDocked(h, f) ==
    /\ Docked(h, f)
    /\ h.fleets[f].team = h.fleets[GarrisonOf(h, f)].team

(* in heap h, fleet f is docked at a planet held by another team *)
EnemyDocked(h, f) ==
    /\ Docked(h, f)
    /\ h.fleets[f].team # h.fleets[GarrisonOf(h, f)].team

Now == Heap(fleets, planets)

Entry == Heap(prev, prev_planets)

(* the sum of Min(strength, cap) over the fleets S of heap fl *)
RECURSIVE SumCapped(_, _, _)
SumCapped(fl, S, cap) ==
    IF S = {} THEN 0
    ELSE LET x == CHOOSE y \in S : TRUE
         IN Min(fl[x].strength, cap) + SumCapped(fl, S \ {x}, cap)

(* the sum of the strengths of the fleets S of heap fl *)
RECURSIVE SumStrength(_, _)
SumStrength(fl, S) ==
    IF S = {} THEN 0
    ELSE LET x == CHOOSE y \in S : TRUE
         IN fl[x].strength + SumStrength(fl, S \ {x})

----------------------------------------------------------------------------
(* C1: step(commands) never fails: from every well-formed state and for     *)
(* every list of move commands, step runs all its phases and the final      *)
(* add/remove of fleets without raising an error.                           *)
C1_StepNeverFails == err = "none"

(* C2: after every completed step no fleet of the entity collection has     *)
(* negative strength.                                                       *)
C2_NoNegativeStrength ==
    StepCompleted => \A f \in FleetsInState : fleets[f].strength >= 0

(* C3: combat applies only between different teams: the combat phase        *)
(* changes neither the strength of an active fleet docked at a planet of    *)
(* its own team nor the strength of that planet's garrison.                 *)
C3_NoFriendlyCombat ==
    JustRan("combat") =>
        \A f \in ActiveFleets :
            FriendlyDocked(before, f) =>
                /\ fleets[f].strength = before.fleets[f].strength
                /\ fleets[GarrisonOf(before, f)].strength =
                       before.fleets[GarrisonOf(before, f)].strength

(* One-on-one combat: in heap h, active fleet f is docked at an enemy planet *)
(* d, both strengths are within 1..MAX_ATTACK_SPEED, no other active fleet   *)
(* is docked at d or at a planet held by f or by d's garrison, and d's       *)
(* garrison does not itself fight anywhere.                                  *)
OneOnOne(h, f) ==
    /\ f \in ActiveFleets
    /\ EnemyDocked(h, f)
    /\ h.fleets[f].strength \in 1..MAX_ATTACK_SPEED
    /\ h.fleets[GarrisonOf(h, f)].strength \in 1..MAX_ATTACK_SPEED
    /\ \A o \in ActiveFleets \ {f} :
          Docked(h, o) =>
              /\ h.fleets[o].destination # h.fleets[f].destination
              /\ GarrisonOf(h, o) \notin {f, GarrisonOf(h, f)}
    /\ ~(GarrisonOf(h, f) \in ActiveFleets /\ Docked(h, GarrisonOf(h, f)))

(* C4: one-on-one combat of an attacker of strength A against an enemy      *)
(* garrison of strength B, 1 <= A, B <= MAX_ATTACK_SPEED: after the combat  *)
(* phase the defender has strength B - A if that is positive, 1 if it is 0, *)
(* and is replaced by the attacker as garrison if it is negative; the       *)
(* attacker has strength A - B and is marked destroyed iff A - B <= 0.      *)
C4_OneOnOneCombat ==
    JustRan("combat") =>
        \A f \in ActiveFleets :
            OneOnOne(before, f) =>
                LET d == before.fleets[f].destination
                    g == GarrisonOf(before, f)
                    A == before.fleets[f].strength
                    B == before.fleets[g].strength
                IN /\ B - A > 0 => /\ fleets[g].strength = B - A
                                   /\ planets[d].defending_fleet = g
                   /\ B - A = 0 => /\ fleets[g].strength = 1
                                   /\ planets[d].defending_fleet = g
                   /\ B - A < 0 => planets[d].defending_fleet = f
                   /\ fleets[f].strength = A - B
                   /\ (f \in SeqToSet(destroyed_fleets)) <=> (A - B <= 0)

(* a one-on-one combat has just ended in a capture *)
C4_Witness ==
    /\ JustRan("combat")
    /\ \E f \in ActiveFleets :
          /\ OneOnOne(before, f)
          /\ before.fleets[f].strength >
                 before.fleets[GarrisonOf(before, f)].strength
          /\ planets[before.fleets[f].destination].defending_fleet = f

(* C5: docking threshold monotonicity: an active fleet whose destination D  *)
(* is the same before and after a step and that could not dock at D before  *)
(* the step can dock at D after it or is strictly closer to D than before.  *)
C5_DockingMonotonicity ==
    StepCompleted =>
        \A f \in FleetsInState \cap DOMAIN prev :
            (/\ fleets[f].team # NEUTREAL
             /\ prev[f].destination # None
             /\ fleets[f].destination = prev[f].destination
             /\ ~Docked(Entry, f))
            => \/ Docked(Now, f)
               \/ distance_to(fleets[f].position,
                              planets[fleets[f].destination].position)
                      < distance_to(prev[f].position,
                                    prev_planets[prev[f].destination].position)

(* C6: a friendly fleet whose strength reaches exactly 0 in the             *)
(* reinforcement phase is removed from the collection at the end of that    *)
(* tick, and the tick completes normally.                                   *)
C6_MergedFleetRemoved ==
    \A f \in SeqToSet(merged_fleets) :
        /\ pc # "failed"
        /\ pc = "idle" => FleetRef(f) \notin SeqToSet(state)

(* in heap h: the fleets the reinforcement phase processes, and the garrisons *)
(* they give to                                                              *)
Donors(h) == {f \in ActiveFleets : FriendlyDocked(h, f)}

DonorsTo(h, g) == {f \in Donors(h) : GarrisonOf(h, f) = g}

Receivers(h) == {GarrisonOf(h, f) : f \in Donors(h)}

Donation(h, f) == Min(h.fleets[f].strength, MAX_ATTACK_SPEED)

TotalStrength(fl) == SumStrength(fl, DOMAIN fl)

(* C7: reinforcement conservation: every friendly docked fleet the          *)
(* reinforcement phase processes loses exactly min(strength,                *)
(* MAX_ATTACK_SPEED), the garrison of its destination gains exactly what    *)
(* its donors lose, and the phase leaves the total strength unchanged.      *)
C7_ReinforceConservation ==
    JustRan("reinforce") =>
        /\ \A f \in Donors(before) \ Receivers(before) :
              fleets[f].strength =
                  before.fleets[f].strength - Donation(before, f)
        /\ \A g \in Receivers(before) \ Donors(before) :
              DonorsTo(before, g) \cap Receivers(before) = {} =>
                  fleets[g].strength =
                      before.fleets[g].strength
                      + SumCapped(before.fleets, DonorsTo(before, g),
                                  MAX_ATTACK_SPEED)
        /\ \A f \in DOMAIN fleets \ (Donors(before) \cup Receivers(before)) :
              fleets[f].strength = before.fleets[f].strength
        /\ TotalStrength(fleets) = TotalStrength(before.fleets)

(* the reinforcement phase has just moved strength into a garrison *)
C7_Witness ==
    /\ JustRan("reinforce")
    /\ \E f \in Donors(before) \ Receivers(before) :
          /\ before.fleets[f].strength > MAX_ATTACK_SPEED
          /\ GarrisonOf(before, f) \notin Donors(before)
          /\ fleets[GarrisonOf(before, f)].strength
                 > before.fleets[GarrisonOf(before, f)].strength

(* the production gain of planet p in the tick entered from heap Entry *)
ProductionGain(p) ==
    IF prev_planets[p].remaining_until_new_ship - 1 <= 0 THEN 1 ELSE 0

(* At the end of a tick: fleet f entered the tick docked at planet d of its  *)
(* own team with d as destination and kept it, f holds no planet, and apart  *)
(* from f nothing touched d: d's garrison stayed, did not depart and went    *)
(* nowhere, and no other active fleet was docked at d.                       *)
LoneMerge(f) ==
    LET d == prev[f].destination
        g == prev_planets[d].defending_fleet
    IN /\ f \in ActiveFleets /\ f \in DOMAIN prev
       /\ FleetRef(f) \in SeqToSet(prev_state)
       /\ d # None
       /\ fleets[f].destination = d
       /\ FriendlyDocked(Entry, f)
       /\ prev[f].strength >= 1
       /\ \A q \in DOMAIN planets : planets[q].defending_fleet # f
       /\ planets[d].defending_fleet = g
       /\ fleets[g].destination = None
       /\ \A q \in DOMAIN planets : q # d => planets[q].defending_fleet # g
       /\ \A o \in ActiveFleets \ {f} :
             ~(fleets[o].destination = d /\ Docked(Now, o))

(* C8: multi-tick merge: a fleet docked at a planet of its own team, with   *)
(* nothing else touching that planet, gives min(strength, MAX_ATTACK_SPEED) *)
(* to the garrison in each tick and loses the same, so that the garrison    *)
(* receives exactly the fleet's strength in total apart from production.    *)
C8_MergeDonatesPerTick ==
    JustRan("production") =>
        \A f \in ActiveFleets :
            LoneMerge(f) =>
                LET d == prev[f].destination
                    g == prev_planets[d].defending_fleet
                    v == Min(prev[f].strength, MAX_ATTACK_SPEED)
                IN /\ fleets[f].strength = prev[f].strength - v
                   /\ fleets[g].strength =
                          prev[g].strength + v + ProductionGain(d)

(* the planets the departure phase spawns a fleet from, in loop order *)
Departing(h) ==
    SelectSeq(all_player_planets(state, h.fleets, h.planets),
              LAMBDA p :
                  /\ h.fleets[h.planets[p].defending_fleet].destination # None
                  /\ h.fleets[h.planets[p].defending_fleet].destination # p)

(* C9: departure result: for every active planet whose garrison has a       *)
(* destination other than that planet, the departure phase creates exactly  *)
(* one new fleet, at the planet's position, of the planet's team, with that *)
(* destination and the garrison's strength, and the garrison is left with   *)
(* strength 0.                                                              *)
C9_DepartureResult ==
    JustRan("departures") =>
        LET dep == Departing(before)
        IN /\ Len(created_fleets) = Len(dep)
           /\ \A i \in 1..Len(dep) :
                 LET p == dep[i]
                     g == before.planets[p].defending_fleet
                     c == created_fleets[i]
                     shared == \E j \in 1..(i - 1) :
                                   before.planets[dep[j]].defending_fleet = g
                 IN /\ c \notin DOMAIN before.fleets
                    /\ \A j \in 1..Len(dep) : created_fleets[j] = c => j = i
                    /\ FleetRef(c) \notin SeqToSet(state)
                    /\ fleets[c].position = planets[p].position
                    /\ fleets[c].team = team(before.fleets, before.planets, p)
                    /\ fleets[c].destination = before.fleets[g].destination
                    /\ ~shared =>
                           fleets[c].strength = before.fleets[g].strength
                    /\ fleets[g].strength = 0
                    /\ fleets[g].position = before.fleets[g].position
                    /\ fleets[g].destination = before.fleets[g].destination

(* the departure phase has just spawned a fleet with positive strength *)
C9_Witness ==
    /\ JustRan("departures")
    /\ \E i \in 1..Len(created_fleets) :
          /\ fleets[created_fleets[i]].strength > 0
          /\ i <= Len(Departing(before))

(* C10: production periodicity: an active planet with production_speed P,   *)
(* countdown at P, that nothing but production touches gains exactly 1      *)
(* garrison strength over P ticks, on the P-th, and its countdown is then   *)
(* back at P; k such ticks in a row give k div P strength and leave the     *)
(* countdown at P - k mod P.                                                *)
C10_ProductionPeriodicity ==
    StepCompleted =>
        \A p \in DOMAIN planets :
            hist[p].run > 0 =>
                LET P == planets[p].production_speed
                    k == hist[p].run
                IN /\ fleets[planets[p].defending_fleet].strength =
                          hist[p].base + (k \div P)
                   /\ planets[p].remaining_until_new_ship = P - (k % P)

(* a planet with production_speed 2 has just finished 2 undisturbed ticks *)
C10_Witness ==
    /\ StepCompleted
    /\ \E p \in DOMAIN planets :
          /\ planets[p].production_speed > 1
          /\ hist[p].run = planets[p].production_speed

(* C11: capture: when combat drives a planet's garrison strength below 0,   *)
(* then after the step the attacking fleet is that planet's defending       *)
(* fleet, the planet's team is the attacker's team, the attacker is still   *)
(* in the entity collection and the old defending fleet no longer is.       *)
C11_Capture ==
    StepCompleted =>
        \A i \in 1..Len(captures) :
            LET c == captures[i]
            IN /\ planets[c.planet].defending_fleet = c.attacker
               /\ team(fleets, planets, c.planet) = fleets[c.attacker].team
               /\ FleetRef(c.attacker) \in SeqToSet(state)
               /\ FleetRef(c.defender) \notin SeqToSet(state)

(* C12: after every completed step every planet's defending fleet is a      *)
(* member of the entity collection: no fleet removed from the collection is *)
(* still some planet's garrison.                                            *)
C12_GarrisonInCollection ==
    StepCompleted =>
        \A p \in DOMAIN planets :
            FleetRef(planets[p].defending_fleet) \in SeqToSet(state)

(* C13, as stated: after every step every planet's garrison has strength   *)
(* >= 1.                                                                    *)
C13_GarrisonStrengthPositive ==
    StepCompleted =>
        \A p \in DOMAIN planets :
            fleets[planets[p].defending_fleet].strength >= 1

(* C13, amended: a departure leaves the garrison at strength 0; the floor   *)
(* of 1 is the draw rule of combat: right after every combat application    *)
(* the defending garrison's strength is not 0: it is 1 when the attack      *)
(* brought it to exactly 0, and what the attack left of it otherwise.       *)
C13_DrawClamped ==
    JustRan("combat") =>
        LET apps == combat_applications(state, before.fleets, before.planets)
        IN \A i \in 1..Len(apps) :
              LET left == apps[i].defender_strength
                          - Min(apps[i].attacker_strength, MAX_ATTACK_SPEED)
              IN /\ apps[i].defender_after # 0
                 /\ apps[i].defender_after = IF left = 0 THEN 1 ELSE left

(* the combat phase has just fought a draw and the garrison of a planet a   *)
(* fleet departed from has strength 0                                       *)
C13_Witness ==
    /\ JustRan("combat")
    /\ \E p \in DOMAIN planets :
          fleets[planets[p].defending_fleet].strength = 0
    /\ LET apps == combat_applications(state, before.fleets, before.planets)
       IN \E i \in 1..Len(apps) :
             /\ apps[i].defender_strength >= 1
             /\ apps[i].defender_strength
                    = Min(apps[i].attacker_strength, MAX_ATTACK_SPEED)
             /\ apps[i].defender_after = 1

(* the neutral fleets both heap h and the current heap hold *)
NeutralFleets(h) ==
    {f \in DOMAIN fleets \cap DOMAIN h.fleets : h.fleets[f].team = NEUTREAL}

(* in heap h, some active fleet is docked at a planet fleet f garrisons *)
Attacked(h, f) ==
    \E a \in ActiveFleets : Docked(h, a) /\ GarrisonOf(h, a) = f

(* C14: neutral entities are excluded from active processing: no phase      *)
(* changes a neutral fleet's team or position, only a command changes its   *)
(* destination, it is never merged away, a neutral garrison's strength      *)
(* changes only in the combat phase and only when a non-neutral fleet is    *)
(* docked at its planet; the departure phase spawns no neutral fleet, and   *)
(* the production phase leaves a neutral planet's countdown alone.          *)
C14_NeutralsInactive ==
    /\ \A f \in NeutralFleets(before) :
          /\ fleets[f].team = NEUTREAL
          /\ fleets[f].position = before.fleets[f].position
          /\ ~JustRan("commands") =>
                fleets[f].destination = before.fleets[f].destination
          /\ fleets[f].strength # before.fleets[f].strength =>
                JustRan("combat") /\ Attacked(before, f)
          /\ f \notin SeqToSet(merged_fleets)
          /\ f \in SeqToSet(destroyed_fleets) =>
                \E i \in 1..Len(captures) : captures[i].defender = f
    /\ \A c \in SeqToSet(created_fleets) :
          c \in DOMAIN fleets => fleets[c].team # NEUTREAL
    /\ \A p \in DOMAIN planets :
          team(before.fleets, before.planets, p) = NEUTREAL =>
              /\ planets[p].remaining_until_new_ship =
                     before.planets[p].remaining_until_new_ship
              /\ planets[p].production_speed =
                     before.planets[p].production_speed
              /\ planets[p].position = before.planets[p].position
              /\ planets[p].defending_fleet # before.planets[p].defending_fleet
                     => JustRan("combat")
                        /\ Attacked(before, before.planets[p].defending_fleet)

(* a step has run all its phases on a neutral garrison that a command sent  *)
(* to another planet it can dock at, and the garrison did not change        *)
C14_Witness ==
    /\ JustRan("production")
    /\ \E f \in NeutralFleets(Entry) :
          /\ fleets[f].destination # None
          /\ planets[fleets[f].destination].defending_fleet # f
          /\ Docked(Now, f)
          /\ \E i \in 1..Len(commands) : commands[i].fleet = f
          /\ fleets[f].strength = prev[f].strength
          /\ fleets[f].position = prev[f].position

(* C15: after a departure the garrison stays docked: the garrison of the   *)
(* origin planet is not removed from the collection and is at the planet's  *)
(* position at the end of that step and of every later step, as long as the *)
(* planet is not captured.                                                  *)
C15_GarrisonStaysDocked ==
    StepCompleted =>
        \A d \in departed :
            /\ FleetRef(d[2]) \in SeqToSet(state)
            /\ fleets[d[2]].position = planets[d[1]].position

(* C16: the fleets the departure phase of a tick creates are not moved,    *)
(* reinforced, fought or marked for removal in that tick: no later phase    *)
(* of the tick changes them, and each is in the entity collection at the    *)
(* end of the tick with the position, strength and destination it was       *)
(* created with.                                                            *)
C16_CreatedFleetsUntouched ==
    \A c \in SeqToSet(created_fleets) :
        /\ c \notin SeqToSet(merged_fleets)
        /\ c \notin SeqToSet(destroyed_fleets)
        /\ pc \in {"reinforce", "combat", "production", "update"} =>
              /\ FleetRef(c) \notin SeqToSet(state)
              /\ fleets[c] = before.fleets[c]
        /\ StepCompleted =>
              /\ FleetRef(c) \in SeqToSet(state)
              /\ fleets[c] = before.fleets[c]

(* a step has completed that created a fleet with positive strength right  *)
(* where it can dock at its destination                                     *)
C16_Witness ==
    /\ StepCompleted
    /\ \E c \in SeqToSet(created_fleets) :
          /\ FleetRef(c) \in SeqToSet(state)
          /\ fleets[c].strength > 0
          /\ Docked(Now, c)

(* the running step's commands leave fleet f, the garrison of planet d when *)
(* the step was entered, with destination d                                  *)
SentHome(f, d) ==
    /\ prev_planets[d].defending_fleet = f
    /\ \E i \in 1..Len(commands) :
          /\ commands[i].fleet = f
          /\ commands[i].destination = d
          /\ \A j \in (i + 1)..Len(commands) : commands[j].fleet # f

(* the already-arrived correction of the running step is over *)
CorrectionOver ==
    pc \in {"departures", "movement", "reinforce", "combat", "production",
            "update", "failed"}

(* C17: no self-departure: the departure phase never spawns a fleet whose   *)
(* destination is its own origin planet, and a command that sends a         *)
(* garrison to the planet it already garrisons leaves that fleet without    *)
(* destination after the already-arrived correction and spawns no fleet.    *)
C17_NoSelfDeparture ==
    /\ JustRan("departures") =>
          \A i \in 1..Len(created_fleets) :
              i <= Len(Departing(before)) =>
                  fleets[created_fleets[i]].destination # Departing(before)[i]
    /\ \A f \in DOMAIN fleets, d \in DOMAIN planets :
          SentHome(f, d) =>
              /\ CorrectionOver => fleets[f].destination = None
              /\ JustRan("departures") =>
                    /\ d \notin SeqToSet(Departing(before))
                    /\ fleets[f].strength = before.fleets[f].strength

(* C18: one command, one departure: after one MoveCommand has sent a        *)
(* planet's garrison to another planet and a fleet was spawned from it, a   *)
(* following step without commands spawns no further fleet from that planet *)
(* as long as it is not captured.                                           *)
C18_OneCommandOneDeparture ==
    (JustRan("departures") /\ commands = <<>>) =>
        \A p \in sent : p \notin SeqToSet(Departing(before))

(* C19: garrisons are not shared: in every state a sequence of steps and   *)
(* commands leaves the game in (after a step has returned or raised), no    *)
(* fleet is the defending fleet of two different planets.                   *)
C19_GarrisonsNotShared ==
    pc \in {"idle", "failed"} =>
        \A p, q \in DOMAIN planets :
            planets[p].defending_fleet = planets[q].defending_fleet => p = q

Spec == Init /\ [][Next]_vars

QuietSpec == Init /\ [][QuietNext]_vars

====
